---- MODULE Spec2Model ----
(***************************************************************************)
(* A model of backend/github.py: the GitHub analyzer object, its           *)
(* load_repo_from_url pipeline (locator parsing, metadata fetch, clone,    *)
(* tree build, module-path collection, dependency analysis) and its query  *)
(* methods.                                                                *)
(*                                                                         *)
(* Python strings are sequences of one-character strings, so that split,   *)
(* strip, replace, startswith and the os.path functions are computed       *)
(* character by character as the interpreter computes them.  None is the   *)
(* empty tuple and a present value x is the one-element tuple <<x>>.       *)
(***************************************************************************)
EXTENDS Integers, Sequences, FiniteSets, TLC

VARIABLES
    repo_url,        \* self.repo_url
    repo_name,       \* self.repo_name
    repo_owner,      \* self.repo_owner
    root_dir,        \* self.root_dir
    file_tree,       \* self.file_tree
    dependency_map,  \* self.dependency_map
    repo_info,       \* self.repo_info
    project_files,   \* self.project_files
    pc,              \* position inside load_repo_from_url, "idle" outside it
    workspace,       \* the temporary directory on disk, None when there is none
    net_log,         \* network calls issued by the load in progress / last load
    ret,             \* value returned by the last load_repo_from_url
    result,          \* value returned by the last query method
    stages,          \* the stages the load in progress / last load has run
    tree_url         \* the locator whose clone self.file_tree was built from

vars == <<repo_url, repo_name, repo_owner, root_dir, file_tree, dependency_map,
          repo_info, project_files, pc, workspace, net_log, ret, result,
          stages, tree_url>>

self_vars == <<repo_url, repo_name, repo_owner, root_dir, file_tree,
               dependency_map, repo_info, project_files>>

\* ------------------------------------------------------------------ None
NoneV == <<>>

Some(x) == <<x>>

IsNone(v) == v = <<>>

Val(v) == v[1]

\* --------------------------------------------------------------- strings
EmptyStr == <<>>

Whitespace == {" ", "\t", "\n", "\r"}

\* str.startswith(prefix)
StartsWith(s, p) == Len(p) <= Len(s) /\ SubSeq(s, 1, Len(p)) = p

\* str.endswith(suffix)
EndsWith(s, p) == Len(p) <= Len(s) /\ SubSeq(s, Len(s) - Len(p) + 1, Len(s)) = p

\* sub in s
Contains(s, sub) ==
    \E i \in 1..(Len(s) - Len(sub) + 1) : SubSeq(s, i, i + Len(sub) - 1) = sub

\* index of the first occurrence of character c in s, 0 when absent
FirstIndex(s, c) ==
    IF \E i \in 1..Len(s) : s[i] = c
    THEN CHOOSE i \in 1..Len(s) : s[i] = c /\ \A j \in 1..(i - 1) : s[j] # c
    ELSE 0

\* index of the last occurrence of character c in s, 0 when absent
LastIndex(s, c) ==
    IF \E i \in 1..Len(s) : s[i] = c
    THEN CHOOSE i \in 1..Len(s) : s[i] = c /\ \A j \in (i + 1)..Len(s) : s[j] # c
    ELSE 0

\* str.split(c) for a one-character separator: empty fields are kept
RECURSIVE Split(_, _)
Split(s, c) ==
    LET i == FirstIndex(s, c)
    IN  IF i = 0 THEN <<s>>
        ELSE <<SubSeq(s, 1, i - 1)>> \o Split(SubSeq(s, i + 1, Len(s)), c)

\* str.lstrip(chars) / str.rstrip(chars) / str.strip(chars)
RECURSIVE LStrip(_, _)
LStrip(s, chars) ==
    IF s # <<>> /\ Head(s) \in chars THEN LStrip(Tail(s), chars) ELSE s

RECURSIVE RStrip(_, _)
RStrip(s, chars) ==
    IF s # <<>> /\ s[Len(s)] \in chars
    THEN RStrip(SubSeq(s, 1, Len(s) - 1), chars) ELSE s

Strip(s, chars) == RStrip(LStrip(s, chars), chars)

\* str.split() with no argument: fields are the maximal whitespace-free runs
RECURSIVE SplitWS(_)
SplitWS(s) ==
    LET t == LStrip(s, Whitespace)
    IN  IF t = <<>> THEN <<>>
        ELSE LET ws == {i \in 1..Len(t) : t[i] \in Whitespace}
                 e  == IF ws = {} THEN Len(t) + 1
                       ELSE CHOOSE i \in ws : \A j \in ws : i <= j
             IN  <<SubSeq(t, 1, e - 1)>> \o SplitWS(SubSeq(t, e, Len(t)))

\* str.replace(old, new): non-overlapping occurrences, left to right
RECURSIVE Replace(_, _, _)
Replace(s, old, new) ==
    IF s = <<>> THEN <<>>
    ELSE IF StartsWith(s, old)
         THEN new \o Replace(SubSeq(s, Len(old) + 1, Len(s)), old, new)
         ELSE <<Head(s)>> \o Replace(Tail(s), old, new)

UpperCase == <<"A", "B", "C", "D", "E", "F", "G", "H", "I", "J", "K", "L", "M",
               "N", "O", "P", "Q", "R", "S", "T", "U", "V", "W", "X", "Y", "Z">>

LowerCase == <<"a", "b", "c", "d", "e", "f", "g", "h", "i", "j", "k", "l", "m",
               "n", "o", "p", "q", "r", "s", "t", "u", "v", "w", "x", "y", "z">>

\* str.lower()
Lower(s) ==
    [i \in 1..Len(s) |->
        IF \E k \in 1..26 : UpperCase[k] = s[i]
        THEN LowerCase[CHOOSE k \in 1..26 : UpperCase[k] = s[i]]
        ELSE s[i]]

\* ---------------------------------------------------------------- os.path
Sep == "/"

\* os.path.join(a, b)
PathJoin(a, b) ==
    IF StartsWith(b, <<Sep>>) THEN b
    ELSE IF a = <<>> \/ a[Len(a)] = Sep THEN a \o b
    ELSE a \o <<Sep>> \o b

\* os.path.basename(p)
Basename(p) == SubSeq(p, LastIndex(p, Sep) + 1, Len(p))

\* os.path.splitext(p): the extension starts at the last dot of the last
\* component; leading dots of that component do not start an extension
SplitExt(p) ==
    LET sepIndex == LastIndex(p, Sep)
        dotIndex == LastIndex(p, ".")
        hasExt   == /\ dotIndex > sepIndex
                    /\ \E k \in (sepIndex + 1)..(dotIndex - 1) : p[k] # "."
    IN  IF hasExt
        THEN <<SubSeq(p, 1, dotIndex - 1), SubSeq(p, dotIndex, Len(p))>>
        ELSE <<p, <<>>>>

\* os.path.relpath(path, start) for a path at or below start, which is the
\* only way the analyzer calls it (every node path is joined below the root)
RelPath(path, start) ==
    IF path = start THEN <<".">>
    ELSE SubSeq(path, Len(start) + 2, Len(path))

\* --------------------------------------------------------------- FileNode
\* FileNode(path, is_dir, children=None, content=None, language=None)
FileNode(path, is_dir, children, content, language) ==
    [path |-> path, is_dir |-> is_dir, children |-> children,
     content |-> content, language |-> language]

\* the node reached from root by following the child indices of loc
RECURSIVE NodeAt(_, _)
NodeAt(node, loc) ==
    IF loc = <<>> THEN node
    ELSE NodeAt(Val(node.children)[Head(loc)], Tail(loc))

\* <node at loc>.children.append(child), as a new tree
RECURSIVE AppendChild(_, _, _)
AppendChild(node, loc, child) ==
    IF loc = <<>>
    THEN [node EXCEPT !.children = Some(Append(Val(node.children), child))]
    ELSE [node EXCEPT !.children =
            Some([Val(node.children) EXCEPT
                    ![Head(loc)] = AppendChild(@, Tail(loc), child)])]

\* every node of a tree, in pre-order
RECURSIVE Nodes(_)
RECURSIVE NodesOfAll(_)
Nodes(node) ==
    <<node>> \o (IF IsNone(node.children) THEN <<>>
                 ELSE NodesOfAll(Val(node.children)))

NodesOfAll(kids) ==
    IF kids = <<>> THEN <<>> ELSE Nodes(Head(kids)) \o NodesOfAll(Tail(kids))

Range(seq) == {seq[i] : i \in 1..Len(seq)}

\* ------------------------------------------------------- _detect_language
LanguageMap ==
    (<<".", "p", "y">> :> "Python") @@
    (<<".", "j", "s">> :> "JavaScript") @@
    (<<".", "t", "s">> :> "TypeScript") @@
    (<<".", "j", "s", "x">> :> "React") @@
    (<<".", "t", "s", "x">> :> "React") @@
    (<<".", "j", "a", "v", "a">> :> "Java") @@
    (<<".", "c">> :> "C") @@
    (<<".", "c", "p", "p">> :> "C++") @@
    (<<".", "g", "o">> :> "Go") @@
    (<<".", "r", "s">> :> "Rust") @@
    (<<".", "r", "b">> :> "Ruby") @@
    (<<".", "p", "h", "p">> :> "PHP") @@
    (<<".", "h", "t", "m", "l">> :> "HTML") @@
    (<<".", "c", "s", "s">> :> "CSS") @@
    (<<".", "m", "d">> :> "Markdown") @@
    (<<".", "j", "s", "o", "n">> :> "JSON") @@
    (<<".", "y", "m", "l">> :> "YAML") @@
    (<<".", "y", "a", "m", "l">> :> "YAML")

DetectLanguage(file_path) ==
    LET ext == Lower(SplitExt(file_path)[2])
    IN  IF ext \in DOMAIN LanguageMap THEN LanguageMap[ext] ELSE "Unknown"

\* ------------------------------------------------------------- filesystem
\* A directory tree on disk is the sequence of its entries in the order the
\* operating system lists them.  An entry is
\*   [parent |-> names of the directories above it, below the top,
\*    name |-> its own name, is_dir |-> BOOLEAN,
\*    bytes |-> the bytes of a file, io |-> "ok" | "open_error" | "read_error"].
\* "open_error": open() raises (a dangling symbolic link, a permission);
\* "read_error": open() succeeds and read() raises.
DotGit == <<".", "g", "i", "t">>

\* a byte that is no valid UTF-8
BadByte == "0xFF"

\* bytes.decode('utf-8', errors='ignore')
DecodeIgnore(bytes) == SelectSeq(bytes, LAMBDA b : b # BadByte)

\* text mode with the default newline=None: "\r\n" and "\r" are read as "\n"
RECURSIVE UniversalNewlines(_)
UniversalNewlines(s) ==
    IF s = <<>> THEN <<>>
    ELSE IF StartsWith(s, <<"\r", "\n">>)
         THEN <<"\n">> \o UniversalNewlines(SubSeq(s, 3, Len(s)))
    ELSE IF Head(s) = "\r" THEN <<"\n">> \o UniversalNewlines(Tail(s))
    ELSE <<Head(s)>> \o UniversalNewlines(Tail(s))

RECURSIVE JoinAll(_, _)
JoinAll(top, names) ==
    IF names = <<>> THEN top ELSE JoinAll(PathJoin(top, Head(names)), Tail(names))

EntryPath(top, e) == PathJoin(JoinAll(top, e.parent), e.name)

\* the entry of the tree at top that file_path names
EntryAt(fs, top, file_path) ==
    LET k == CHOOSE i \in 1..Len(fs) : EntryPath(top, fs[i]) = file_path
    IN  fs[k]

NamesOf(ents) == [i \in 1..Len(ents) |-> ents[i].name]

\* os.walk(top), top-down: one (dirpath, dirnames, filenames) per directory
RECURSIVE Walk(_, _, _)
RECURSIVE WalkEach(_, _, _, _)
Walk(fs, top, rel) ==
    LET here  == SelectSeq(fs, LAMBDA e : e.parent = rel)
        dirs  == NamesOf(SelectSeq(here, LAMBDA e : e.is_dir))
        files == NamesOf(SelectSeq(here, LAMBDA e : ~e.is_dir))
    IN  <<[dirpath |-> JoinAll(top, rel), dirnames |-> dirs, filenames |-> files]>>
        \o WalkEach(fs, top, rel, dirs)

WalkEach(fs, top, rel, dirs) ==
    IF dirs = <<>> THEN <<>>
    ELSE Walk(fs, top, Append(rel, Head(dirs))) \o WalkEach(fs, top, rel, Tail(dirs))

\* ----------------------------------------------------- _get_or_create_node
\* _get_or_create_node without the search of current.children: every part
\* gets a new node
RECURSIVE GetOrCreatePartsNoSearch(_, _, _)
GetOrCreatePartsNoSearch(tree, loc, parts) ==
    IF parts = <<>> THEN [tree |-> tree, loc |-> loc]
    ELSE IF Head(parts) = <<".">> THEN GetOrCreatePartsNoSearch(tree, loc, Tail(parts))
    ELSE
      LET current  == NodeAt(tree, loc)
          kids     == Val(current.children)
          new_path == PathJoin(current.path, Head(parts))
          new_node == [path |-> new_path, is_dir |-> TRUE, children |-> Some(<<>>),
                       content |-> NoneV, language |-> NoneV]
      IN  GetOrCreatePartsNoSearch(AppendChild(tree, loc, new_node),
                                   Append(loc, Len(kids) + 1), Tail(parts))

\* The loop over the parts of the relative path; the result is the tree,
\* which may have gained nodes, and the place of the node found or created.
RECURSIVE GetOrCreateParts(_, _, _)
GetOrCreateParts(tree, loc, parts) ==
    IF parts = <<>> THEN [tree |-> tree, loc |-> loc]
    ELSE IF Head(parts) = <<".">> THEN GetOrCreateParts(tree, loc, Tail(parts))
    ELSE
      LET current == NodeAt(tree, loc)
          kids    == Val(current.children)
          found   == {i \in 1..Len(kids) :
                        Basename(kids[i].path) = Head(parts) /\ kids[i].is_dir}
      IN  IF found # {}
          THEN GetOrCreateParts(tree,
                   Append(loc, CHOOSE i \in found : \A j \in found : i <= j),
                   Tail(parts))
          ELSE LET new_path == PathJoin(current.path, Head(parts))
                   new_node == FileNode(new_path, TRUE, Some(<<>>), NoneV, NoneV)
               IN  GetOrCreateParts(AppendChild(tree, loc, new_node),
                                    Append(loc, Len(kids) + 1), Tail(parts))

GetOrCreateNode(root, path) ==
    IF root.path = path THEN [tree |-> root, loc |-> <<>>]
    ELSE GetOrCreateParts(root, <<>>, Split(RelPath(path, root.path), Sep))

\* -------------------------------------------------------- _build_file_tree
\* the loop "for dirname in dirnames"
RECURSIVE AddDirs(_, _, _, _)
AddDirs(tree, loc, dirpath, dirnames) ==
    IF dirnames = <<>> THEN tree
    ELSE IF StartsWith(Head(dirnames), <<".">>)
         THEN AddDirs(tree, loc, dirpath, Tail(dirnames))
         ELSE AddDirs(
                AppendChild(tree, loc,
                    FileNode(PathJoin(dirpath, Head(dirnames)), TRUE,
                             Some(<<>>), NoneV, NoneV)),
                loc, dirpath, Tail(dirnames))

\* the text a file yields: open() may raise (None here), read() may raise
\* and then the content is "", undecodable bytes are dropped
ReadFile(fs, top, file_path) ==
    LET e == EntryAt(fs, top, file_path)
    IN  IF e.io = "open_error" THEN NoneV
        ELSE IF e.io = "read_error" THEN Some(EmptyStr)
        ELSE Some(UniversalNewlines(DecodeIgnore(e.bytes)))

\* the loop "for filename in filenames"; None when open() raised
RECURSIVE AddFiles(_, _, _, _, _, _)
AddFiles(fs, top, tree, loc, dirpath, filenames) ==
    IF filenames = <<>> THEN Some(tree)
    ELSE IF StartsWith(Head(filenames), <<".">>)
         THEN AddFiles(fs, top, tree, loc, dirpath, Tail(filenames))
         ELSE LET file_path == PathJoin(dirpath, Head(filenames))
                  language  == DetectLanguage(file_path)
                  content   == ReadFile(fs, top, file_path)
              IN  IF IsNone(content) THEN NoneV
                  ELSE AddFiles(fs, top,
                         AppendChild(tree, loc,
                             FileNode(file_path, FALSE, NoneV,
                                      Some(Val(content)), Some(language))),
                         loc, dirpath, Tail(filenames))

\* the loop over os.walk; None when an exception left the function
RECURSIVE BuildWalk(_, _, _, _)
BuildWalk(fs, top, root, walk) ==
    IF walk = <<>> THEN Some(root)
    ELSE LET w == Head(walk)
         IN  IF Contains(w.dirpath, DotGit)
             THEN BuildWalk(fs, top, root, Tail(walk))
             ELSE LET got      == GetOrCreateNode(root, w.dirpath)
                      withDirs == AddDirs(got.tree, got.loc, w.dirpath, w.dirnames)
                      done     == AddFiles(fs, top, withDirs, got.loc,
                                           w.dirpath, w.filenames)
                  IN  IF IsNone(done) THEN NoneV
                      ELSE BuildWalk(fs, top, Val(done), Tail(walk))

\* _build_file_tree(root_path) over the directory tree fs found at root_path
BuildFileTree(fs, root_path) ==
    BuildWalk(fs, root_path,
              FileNode(root_path, TRUE, Some(<<>>), NoneV, NoneV),
              Walk(fs, root_path, <<>>))

\* -------------------------------------------------- _collect_project_files
\* the collection with a directory below the root registered as a module too
RECURSIVE CollectProjectFilesWithPackages(_, _)
RECURSIVE CollectAllWithPackages(_, _)
CollectProjectFilesWithPackages(node, root) ==
    IF ~node.is_dir
    THEN {Replace(SplitExt(RelPath(node.path, root))[1], <<Sep>>, <<".">>)}
    ELSE (IF node.path = root THEN {}
          ELSE {Replace(RelPath(node.path, root), <<Sep>>, <<".">>)}) \cup
         (IF ~IsNone(node.children) /\ Val(node.children) # <<>>
          THEN CollectAllWithPackages(Val(node.children), root)
          ELSE {})

CollectAllWithPackages(kids, root) ==
    IF kids = <<>> THEN {}
    ELSE CollectProjectFilesWithPackages(Head(kids), root) \cup
         CollectAllWithPackages(Tail(kids), root)

\* the module paths that _collect_project_files(node) adds to project_files
RECURSIVE CollectProjectFiles(_, _)
RECURSIVE CollectAll(_, _)
CollectProjectFiles(node, root) ==
    IF ~node.is_dir
    THEN LET rel_path    == RelPath(node.path, root)
             module_path == Replace(SplitExt(rel_path)[1], <<Sep>>, <<".">>)
         IN  {module_path}
    ELSE IF ~IsNone(node.children) /\ Val(node.children) # <<>>
         THEN CollectAll(Val(node.children), root)
         ELSE {}

CollectAll(kids, root) ==
    IF kids = <<>> THEN {}
    ELSE CollectProjectFiles(Head(kids), root) \cup CollectAll(Tail(kids), root)

\* ---------------------------------------------------- _analyze_dependencies
ImportKw == <<"i", "m", "p", "o", "r", "t", " ">>

FromKw == <<"f", "r", "o", "m", " ">>

ImportWord == <<"i", "m", "p", "o", "r", "t">>

RequireCall == <<"r", "e", "q", "u", "i", "r", "e", "(">>

\* [line.strip() for line in content.split('\n')]
StrippedLines(content) ==
    LET lines == Split(content, "\n")
    IN  [i \in 1..Len(lines) |-> Strip(lines[i], Whitespace)]

\* the import_lines of _analyze_python_dependencies
PythonImportLines(content) ==
    SelectSeq(StrippedLines(content),
              LAMBDA line : StartsWith(line, ImportKw) \/ StartsWith(line, FromKw))

\* the import_lines of _analyze_js_dependencies
JsImportLines(content) ==
    SelectSeq(StrippedLines(content),
              LAMBDA line : StartsWith(line, ImportKw) \/ Contains(line, RequireCall))

\* analyze_file without the test of the language: the Python extractor runs
\* on every file that has text
AnalyzeFileAnyLanguage(map, file_node) ==
    IF ~file_node.is_dir /\ ~IsNone(file_node.content)
       /\ Val(file_node.content) # EmptyStr
    THEN (file_node.path :> PythonImportLines(Val(file_node.content))) @@ map
    ELSE map

\* analyze_file(file_node) applied to the map built so far
AnalyzeFile(map, file_node) ==
    IF ~file_node.is_dir /\ ~IsNone(file_node.content)
       /\ Val(file_node.content) # EmptyStr
    THEN IF file_node.language = Some("Python")
         THEN (file_node.path :> PythonImportLines(Val(file_node.content))) @@ map
         ELSE IF file_node.language \in
                    {Some("JavaScript"), Some("TypeScript"), Some("React")}
         THEN (file_node.path :> JsImportLines(Val(file_node.content))) @@ map
         ELSE map
    ELSE map

\* traverse(node) applied to the map built so far
RECURSIVE Traverse(_, _)
RECURSIVE TraverseAll(_, _)
Traverse(map, node) ==
    IF node.is_dir /\ ~IsNone(node.children) /\ Val(node.children) # <<>>
    THEN TraverseAll(map, Val(node.children))
    ELSE AnalyzeFile(map, node)

TraverseAll(map, kids) ==
    IF kids = <<>> THEN map
    ELSE TraverseAll(Traverse(map, Head(kids)), Tail(kids))

\* the dependency_map that _analyze_dependencies leaves
AnalyzeDependencies(tree) == Traverse(<<>>, tree)

\* --------------------------------------------------- _is_project_dependency
IsProjectDependency(import_line, files) ==
    IF StartsWith(import_line, ImportKw)
    THEN LET module == Split(SplitWS(SubSeq(import_line, 8, Len(import_line)))[1],
                             ".")[1]
         IN  module \in files
    ELSE IF StartsWith(import_line, FromKw)
    THEN LET parts == SplitWS(SubSeq(import_line, 6, Len(import_line)))
         IN  IF Len(parts) >= 2 /\ parts[2] = ImportWord
             THEN Split(parts[1], ".")[1] \in files
             ELSE FALSE
    ELSE FALSE

\* dependency_map.get(file_path, [])
DepsOf(map, file_path) ==
    IF file_path \in DOMAIN map THEN map[file_path] ELSE <<>>

\* get_file_dependencies(file_path)
FileDependencies(map, files, file_path) ==
    SelectSeq(DepsOf(map, file_path), LAMBDA dep : IsProjectDependency(dep, files))

\* get_file_third_party_dependencies(file_path)
FileThirdPartyDependencies(map, files, file_path) ==
    SelectSeq(DepsOf(map, file_path), LAMBDA dep : ~IsProjectDependency(dep, files))

\* ----------------------------------------------------- _get_tree_with_depth
\* the test with > for >=: the cut comes one level late
AtMaxDepthLate(current_depth, max_depth) == current_depth > max_depth

\* the test made one level early: the node above the depth is cut already
AtMaxDepthEarly(current_depth, max_depth) == current_depth + 1 >= max_depth

\* the test that ends the recursion
AtMaxDepth(current_depth, max_depth) == current_depth >= max_depth

\* the projection with a cut directory given no child list at all
RECURSIVE GetTreeWithDepthNoList(_, _, _)
GetTreeWithDepthNoList(node, max_depth, current_depth) ==
    IF AtMaxDepth(current_depth, max_depth)
    THEN FileNode(node.path, node.is_dir, NoneV, NoneV, node.language)
    ELSE FileNode(node.path, node.is_dir,
                  IF node.is_dir
                  THEN Some(IF ~IsNone(node.children)
                            THEN [i \in 1..Len(Val(node.children)) |->
                                     GetTreeWithDepthNoList(Val(node.children)[i],
                                                            max_depth,
                                                            current_depth + 1)]
                            ELSE <<>>)
                  ELSE NoneV,
                  node.content, node.language)

RECURSIVE GetTreeWithDepth(_, _, _)
RECURSIVE DepthChildren(_, _, _)
GetTreeWithDepth(node, max_depth, current_depth) ==
    IF AtMaxDepth(current_depth, max_depth)
    THEN FileNode(node.path, node.is_dir,
                  IF node.is_dir THEN Some(<<>>) ELSE NoneV,
                  NoneV, node.language)
    ELSE FileNode(node.path, node.is_dir,
                  IF node.is_dir
                  THEN Some(IF ~IsNone(node.children)
                            THEN DepthChildren(Val(node.children), max_depth,
                                               current_depth + 1)
                            ELSE <<>>)
                  ELSE NoneV,
                  node.content, node.language)

DepthChildren(kids, max_depth, depth) ==
    [i \in 1..Len(kids) |-> GetTreeWithDepth(kids[i], max_depth, depth)]

\* ------------------------------------------------------- locator parsing
GitSshPrefix == <<"g", "i", "t", "@", "g", "i", "t", "h", "u", "b", ".", "c", "o", "m", ":">>

GithubHost == <<"g", "i", "t", "h", "u", "b", ".", "c", "o", "m">>

\* parts[1].replace('.git', '')
RepoNameOfSsh(part) == Replace(part, DotGit, EmptyStr)

\* the (owner, name) that load_repo_from_url stores for url, None where it
\* returns False instead
ParseLocator(url) ==
    IF StartsWith(url, GitSshPrefix)
    THEN LET parts == Split(Split(url, ":")[2], Sep)
         IN  IF Len(parts) < 2 THEN NoneV
             ELSE Some([owner |-> parts[1], name |-> RepoNameOfSsh(parts[2])])
    ELSE LET parts == Split(Strip(url, {Sep}), Sep)
         IN  IF Len(parts) < 5 \/ parts[3] # GithubHost THEN NoneV
             ELSE Some([owner |-> parts[4], name |-> parts[5]])

\* ---------------------------------------------------- _fetch_repo_metadata
ApiRepos == <<"h", "t", "t", "p", "s", ":", "/", "/", "a", "p", "i", ".", "g", "i", "t", "h", "u", "b", ".", "c", "o", "m", "/", "r", "e", "p", "o", "s", "/">>

ReadmeSuffix == <<"/", "r", "e", "a", "d", "m", "e">>

ApiUrl(owner, name) == ApiRepos \o owner \o <<Sep>> \o name

ReadmeUrl(owner, name) == ApiUrl(owner, name) \o ReadmeSuffix

\* What the metadata server answers is the environment's choice.  The value
\* it reports under a key for the repository at api_url is the pair of both.
ServerData(api_url) ==
    [key \in {"name", "full_name", "description", "stargazers_count",
              "forks_count", "language", "created_at", "updated_at",
              "login", "avatar_url"} |-> <<key, api_url>>]

\* the dictionary assigned to self.repo_info on a 200 response
RepoInfoOf(data) ==
    [name |-> data["name"], full_name |-> data["full_name"],
     description |-> data["description"], stars |-> data["stargazers_count"],
     forks |-> data["forks_count"], language |-> data["language"],
     created_at |-> data["created_at"], updated_at |-> data["updated_at"],
     owner |-> [login |-> data["login"], avatar_url |-> data["avatar_url"]]]

\* base64 text: one symbol <<"b64", b>> per encoded byte b
B64Encode(bytes) == [i \in 1..Len(bytes) |-> <<"b64", bytes[i]>>]

\* base64.b64decode(text)
B64Decode(text) == [i \in 1..Len(text) |-> text[i][2]]

ReadmeBytes == <<"#", " ", "h", "i", BadByte>>

\* The answers of the two GETs: "exception", "404" for the first GET, and
\* "200:x" with x the answer of the README GET ("200" carries the encoded
\* README, "200empty" an empty content).
MetaOutcomes == {"exception", "404", "200:exception", "200:404", "200:200",
                 "200:200empty"}

\* self.repo_info after _fetch_repo_metadata under the given answers
FetchRepoMetadata(info, owner, name, outcome) ==
    IF outcome \in {"exception", "404"} THEN info
    ELSE LET fetched        == RepoInfoOf(ServerData(ApiUrl(owner, name)))
             readme_ok      == outcome \in {"200:200", "200:200empty"}
             readme_content == IF outcome = "200:200" THEN B64Encode(ReadmeBytes)
                               ELSE EmptyStr
         IN  IF readme_ok /\ readme_content # EmptyStr
             THEN ("readme" :> DecodeIgnore(B64Decode(readme_content))) @@ fetched
             ELSE fetched

\* the requests.get calls of _fetch_repo_metadata under the given answers
MetadataCalls(owner, name, outcome) ==
    IF outcome \in {"exception", "404"}
    THEN <<<<"GET", ApiUrl(owner, name)>>>>
    ELSE <<<<"GET", ApiUrl(owner, name)>>, <<"GET", ReadmeUrl(owner, name)>>>>

\* ------------------------------------------------------------ get_repo_info
GetRepoInfoValue(url, name, owner, info) ==
    info @@ [repo_url |-> url, repo_name |-> name, repo_owner |-> owner]

\* ------------------------------------------------------------ environment
\* tempfile.TemporaryDirectory(): the name of the directory it creates
TempDir == <<"/", "t", "m", "p", "/", "t", "m", "p", "w">>

Acme == <<"a", "c", "m", "e">>

Widget == <<"w", "i", "d", "g", "e", "t">>

GithubIo == <<"x", ".", "g", "i", "t", "h", "u", "b", ".", "i", "o">>

HttpsGithub == <<"h", "t", "t", "p", "s", ":", "/", "/", "g", "i", "t", "h", "u", "b", ".", "c", "o", "m", "/">>

\* git@github.com:owner/name.git
SshLocator(owner, name) == GitSshPrefix \o owner \o <<Sep>> \o name \o DotGit

\* https://github.com/owner/name
HttpsLocator(owner, name) == HttpsGithub \o owner \o <<Sep>> \o name

Owners == {Acme, EmptyStr}

RepoNames == {Widget, GithubIo, EmptyStr}

OtherLocators ==
    { EmptyStr,
      GitSshPrefix \o Acme,
      HttpsGithub \o Acme,
      HttpsLocator(Acme, Widget) \o <<Sep>>,
      <<"f", "t", "p", ":", "/", "/">> \o GithubHost \o <<Sep>> \o Acme \o <<Sep>> \o Widget,
      <<"g", "i", "t", "@", "g", "i", "t", "l", "a", "b", ".", "c", "o", "m", ":">>
          \o Acme \o <<Sep>> \o Widget \o DotGit,
      <<"h", "t", "t", "p", "s", ":", "/", "/", "g", "i", "t", "l", "a", "b", ".", "c", "o", "m", "/">>
          \o Acme \o <<Sep>> \o Widget }

AllLocators ==
    {SshLocator(o, n) : o \in Owners, n \in RepoNames} \cup
    {HttpsLocator(o, n) : o \in Owners, n \in RepoNames} \cup OtherLocators

CoreLocators ==
    {SshLocator(Acme, Widget), HttpsLocator(Acme, Widget),
     HttpsLocator(Acme, GithubIo), HttpsGithub \o Acme}

ImportOs == <<"i", "m", "p", "o", "r", "t", " ", "o", "s">>

FromPkgSub == <<"f", "r", "o", "m", " ", "p", "k", "g", ".", "s", "u", "b", " ", "i", "m", "p", "o", "r", "t", " ", "x">>

ImportPkgOs == <<"i", "m", "p", "o", "r", "t", " ", "p", "k", "g", ",", " ", "o", "s">>

ImportPkgSub == <<"i", "m", "p", "o", "r", "t", " ", "p", "k", "g", ".", "s", "u", "b">>

Assign == <<"x", " ", "=", " ", "1">>

RequireLine == <<"c", "o", "n", "s", "t", " ", "a", " ", "=", " ", "r", "e", "q", "u", "i", "r", "e", "(", "\"", "b", "\"", ")">>

MainPy == <<"m", "a", "i", "n", ".", "p", "y">>

PkgPy == <<"p", "k", "g", ".", "p", "y">>

Pkg == <<"p", "k", "g">>

SubPy == <<"s", "u", "b", ".", "p", "y">>

NotesMd == <<"n", "o", "t", "e", "s", ".", "m", "d">>

DotCi == <<".", "c", "i">>

RunJs == <<"r", "u", "n", ".", "j", "s">>

DotEnv == <<".", "e", "n", "v">>

DotDeep == <<".", "d", "e", "e", "p">>

JobPy == <<"j", "o", "b", ".", "p", "y">>

LibGit == <<"l", "i", "b", ".", "g", "i", "t">>

HeadFile == <<"H", "E", "A", "D">>

ConfigFile == <<"c", "o", "n", "f", "i", "g">>

LinkFile == <<"l", "i", "n", "k">>

\* the two texts main.py may hold
MainA == ImportOs \o <<"\n">> \o FromPkgSub

MainB == ImportPkgOs \o <<"\n", " ", " ">> \o ImportPkgSub \o <<"\r", "\n">> \o Assign

MainContents == {MainA, MainB}

Dir(parent, name) ==
    [parent |-> parent, name |-> name, is_dir |-> TRUE, bytes |-> <<>>, io |-> "ok"]

File(parent, name, bytes, io) ==
    [parent |-> parent, name |-> name, is_dir |-> FALSE, bytes |-> bytes, io |-> io]

\* A working copy as git clone leaves it: main.py, .env and .git/ always;
\* pkg.py, pkg/, lib.git/HEAD and a dangling link each present or not.
\* pkg is "absent", or the io mode of pkg/sub.py, which has the Markdown
\* file pkg/notes.md beside it.  ci is "absent", "flat"
\* (.ci/run.js) or "nested" (.ci/.deep/job.py as well).
Layout(main, hasPkgPy, pkg, ci, hasLib, hasLink) ==
    (IF hasLib THEN <<Dir(<<>>, LibGit), File(<<LibGit>>, HeadFile, Assign, "ok")>>
     ELSE <<>>) \o
    (IF pkg # "absent"
     THEN <<Dir(<<>>, Pkg), File(<<Pkg>>, SubPy, ImportOs, pkg),
            File(<<Pkg>>, NotesMd, ImportOs, "ok")>>
     ELSE <<>>) \o
    <<File(<<>>, MainPy, main, "ok")>> \o
    (IF ci # "absent"
     THEN <<Dir(<<>>, DotCi), File(<<DotCi>>, RunJs, RequireLine, "ok")>>
     ELSE <<>>) \o
    (IF ci = "nested"
     THEN <<Dir(<<DotCi>>, DotDeep), File(<<DotCi, DotDeep>>, JobPy, ImportPkgSub, "ok")>>
     ELSE <<>>) \o
    <<File(<<>>, DotEnv, Assign, "ok"), Dir(<<>>, DotGit),
      File(<<DotGit>>, ConfigFile, Assign, "ok")>> \o
    (IF hasPkgPy THEN <<File(<<>>, PkgPy, <<BadByte>> \o Assign, "ok")>> ELSE <<>>) \o
    (IF hasLink THEN <<File(<<>>, LinkFile, <<>>, "open_error")>> ELSE <<>>)

\* every working copy of the model
AllLayouts ==
    {Layout(m, p, k, c, l, s) :
        m \in MainContents, p \in BOOLEAN, k \in {"absent", "ok"},
        c \in {"absent", "flat", "nested"}, l \in BOOLEAN, s \in BOOLEAN}

\* working copies that differ in what can be read
IoLayouts ==
    {Layout(MainA, FALSE, k, "absent", FALSE, s) :
        k \in {"absent", "ok", "read_error"}, s \in BOOLEAN}

PlainLayouts == {Layout(MainA, FALSE, "ok", "absent", FALSE, FALSE)}

\* the deepest max_depth asked of get_file_tree
MaxDepth == 3

MissingPath == PathJoin(TempDir, <<"n", "o", "n", "e", ".", "p", "y">>)

\* ----------------------------------------------------------------- __init__
Init ==
    /\ repo_url = NoneV
    /\ repo_name = NoneV
    /\ repo_owner = NoneV
    /\ root_dir = NoneV
    /\ file_tree = NoneV
    /\ dependency_map = <<>>
    /\ repo_info = <<>>
    /\ project_files = {}
    /\ pc = "idle"
    /\ workspace = NoneV
    /\ net_log = <<>>
    /\ ret = NoneV
    /\ result = NoneV
    /\ stages = <<>>
    /\ tree_url = NoneV

\* ------------------------------------------------------ load_repo_from_url
\* lines 50-66: store the url, parse it, return False or go on
LoadParse(url) ==
    /\ pc = "idle"
    /\ repo_url' = Some(url)
    /\ net_log' = <<>>
    /\ result' = NoneV
    /\ stages' = <<"parse">>
    /\ LET parsed == ParseLocator(url)
       IN  IF IsNone(parsed)
           THEN /\ ret' = Some(FALSE)
                /\ pc' = "idle"
                /\ UNCHANGED <<repo_owner, repo_name>>
           ELSE /\ repo_owner' = Some(Val(parsed).owner)
                /\ repo_name' = Some(Val(parsed).name)
                /\ ret' = NoneV
                /\ pc' = "metadata"
    /\ UNCHANGED <<root_dir, file_tree, dependency_map, repo_info, project_files,
                   workspace, tree_url>>

\* line 69: self._fetch_repo_metadata()
FetchMetadata(outcome) ==
    /\ pc = "metadata"
    /\ repo_info' = FetchRepoMetadata(repo_info, Val(repo_owner), Val(repo_name),
                                      outcome)
    /\ net_log' = net_log \o MetadataCalls(Val(repo_owner), Val(repo_name), outcome)
    /\ pc' = "clone"
    /\ stages' = Append(stages, "metadata")
    /\ UNCHANGED <<repo_url, repo_name, repo_owner, root_dir, file_tree,
                   dependency_map, project_files, workspace, ret, result,
                   tree_url>>

\* lines 72-80, clone succeeds: the temporary directory holds the working copy
CloneOk(layout) ==
    /\ pc = "clone"
    /\ root_dir' = Some(TempDir)
    /\ net_log' = Append(net_log, <<"clone", Val(repo_url), TempDir>>)
    /\ workspace' = Some(layout)
    /\ pc' = "build"
    /\ stages' = Append(stages, "clone")
    /\ UNCHANGED <<repo_url, repo_name, repo_owner, file_tree, dependency_map,
                   repo_info, project_files, ret, result, tree_url>>

\* a failed clone that is tried again instead of ending the load
CloneFailRetried ==
    /\ pc = "clone"
    /\ root_dir' = Some(TempDir)
    /\ net_log' = Append(net_log, <<"clone", Val(repo_url), TempDir>>)
    /\ workspace' = NoneV
    /\ pc' = "clone"
    /\ stages' = Append(stages, "clone")
    /\ UNCHANGED <<repo_url, repo_name, repo_owner, file_tree, dependency_map,
                   repo_info, project_files, ret, result, tree_url>>

\* lines 72-80 and 88-90, clone fails: the directory is removed, False returned
CloneFail ==
    /\ pc = "clone"
    /\ root_dir' = Some(TempDir)
    /\ net_log' = Append(net_log, <<"clone", Val(repo_url), TempDir>>)
    /\ workspace' = NoneV
    /\ ret' = Some(FALSE)
    /\ pc' = "idle"
    /\ stages' = Append(stages, "clone")
    /\ UNCHANGED <<repo_url, repo_name, repo_owner, file_tree, dependency_map,
                   repo_info, project_files, result, tree_url>>

\* the build step with the directory left on disk when _build_file_tree
\* raises
BuildLeavesWorkspace ==
    /\ pc = "build"
    /\ LET built == BuildFileTree(Val(workspace), Val(root_dir))
       IN  IF IsNone(built)
           THEN /\ ret' = Some(FALSE)
                /\ pc' = "idle"
                /\ UNCHANGED <<file_tree, tree_url, workspace>>
           ELSE /\ file_tree' = built
                /\ tree_url' = repo_url
                /\ pc' = "collect"
                /\ UNCHANGED <<ret, workspace>>
    /\ stages' = Append(stages, "build")
    /\ UNCHANGED <<repo_url, repo_name, repo_owner, root_dir, dependency_map,
                   repo_info, project_files, net_log, result>>

\* line 82, and lines 88-90 when _build_file_tree raises
Build ==
    /\ pc = "build"
    /\ LET built == BuildFileTree(Val(workspace), Val(root_dir))
       IN  IF IsNone(built)
           THEN /\ ret' = Some(FALSE)
                /\ workspace' = NoneV
                /\ pc' = "idle"
                /\ UNCHANGED <<file_tree, tree_url>>
           ELSE /\ file_tree' = built
                /\ tree_url' = repo_url
                /\ pc' = "collect"
                /\ UNCHANGED <<ret, workspace>>
    /\ stages' = Append(stages, "build")
    /\ UNCHANGED <<repo_url, repo_name, repo_owner, root_dir, dependency_map,
                   repo_info, project_files, net_log, result>>

\* line 84: self._collect_project_files(self.file_tree)
Collect ==
    /\ pc = "collect"
    /\ project_files' =
           project_files \cup CollectProjectFiles(Val(file_tree), Val(root_dir))
    /\ pc' = "analyze"
    /\ stages' = Append(stages, "collect")
    /\ UNCHANGED <<repo_url, repo_name, repo_owner, root_dir, file_tree,
                   dependency_map, repo_info, workspace, net_log, ret, result,
                   tree_url>>

\* lines 86-87: self._analyze_dependencies(), return True, directory removed
Analyze ==
    /\ pc = "analyze"
    /\ dependency_map' = AnalyzeDependencies(Val(file_tree))
    /\ ret' = Some(TRUE)
    /\ workspace' = NoneV
    /\ pc' = "idle"
    /\ stages' = Append(stages, "analyze")
    /\ UNCHANGED <<repo_url, repo_name, repo_owner, root_dir, file_tree,
                   repo_info, project_files, net_log, result, tree_url>>

\* ------------------------------------------------------------------ queries
Returned(op, arg, raised, val) ==
    /\ result' = Some([op |-> op, arg |-> arg, raised |-> raised, val |-> val])
    /\ UNCHANGED <<self_vars, pc, workspace, net_log, ret, stages, tree_url>>

\* get_file_tree() taking no depth for depth 0: the root alone, stripped
GetFileTreeUnboundedAsZero ==
    /\ pc = "idle"
    /\ Returned("get_file_tree", NoneV, FALSE,
                IF IsNone(file_tree) THEN NoneV
                ELSE Some(GetTreeWithDepth(Val(file_tree), 0, 0)))

\* get_file_tree(max_depth) with a depth; on an instance that never built a
\* tree the attribute access on None raises
GetFileTree(max_depth) ==
    /\ pc = "idle"
    /\ IF IsNone(file_tree)
       THEN Returned("get_file_tree", Some(max_depth), TRUE, NoneV)
       ELSE Returned("get_file_tree", Some(max_depth), FALSE,
                     Some(GetTreeWithDepth(Val(file_tree), max_depth, 0)))

\* get_file_tree() without a depth
GetFileTreeUnbounded ==
    /\ pc = "idle"
    /\ Returned("get_file_tree", NoneV, FALSE, file_tree)

\* _get_tree_with_depth(view, max_depth) applied to the tree that the last
\* get_file_tree(depth) returned
GetTreeWithDepthOfView(max_depth) ==
    /\ pc = "idle"
    /\ ~IsNone(result)
    /\ Val(result).op = "get_file_tree"
    /\ ~Val(result).raised
    /\ ~IsNone(Val(result).arg)
    /\ Returned("_get_tree_with_depth", <<Val(Val(result).arg), max_depth>>, FALSE,
                Some(GetTreeWithDepth(Val(Val(result).val), max_depth, 0)))

GetRepoInfo ==
    /\ pc = "idle"
    /\ Returned("get_repo_info", NoneV, FALSE,
                GetRepoInfoValue(repo_url, repo_name, repo_owner, repo_info))

\* the paths the dependency queries are asked about
FilePaths(tree) ==
    IF IsNone(tree) THEN {}
    ELSE {n.path : n \in {m \in Range(Nodes(Val(tree))) : ~m.is_dir}}

QueryPaths == FilePaths(file_tree) \cup DOMAIN dependency_map \cup {MissingPath}

GetFileDependencies(file_path) ==
    /\ pc = "idle"
    /\ Returned("get_file_dependencies", file_path, FALSE,
                FileDependencies(dependency_map, project_files, file_path))

GetFileThirdPartyDependencies(file_path) ==
    /\ pc = "idle"
    /\ Returned("get_file_third_party_dependencies", file_path, FALSE,
                FileThirdPartyDependencies(dependency_map, project_files, file_path))

\* ------------------------------------------------------------ specifications
\* one step of the analyzer with the environment's choices drawn from the
\* given locators, metadata answers and working copies
Step(locators, outcomes, layouts) ==
    \/ \E url \in locators : LoadParse(url)
    \/ \E outcome \in outcomes : FetchMetadata(outcome)
    \/ \E layout \in layouts : CloneOk(layout)
    \/ CloneFail
    \/ Build
    \/ Collect
    \/ Analyze
    \/ \E d \in 0..MaxDepth : GetFileTree(d)
    \/ \E d \in 0..MaxDepth : GetTreeWithDepthOfView(d)
    \/ GetFileTreeUnbounded
    \/ GetRepoInfo
    \/ \E f \in QueryPaths : GetFileDependencies(f)
    \/ \E f \in QueryPaths : GetFileThirdPartyDependencies(f)

\* working copies of every shape, one repository
Next == Step({SshLocator(Acme, Widget)}, {"200:200"}, AllLayouts)

Spec == Init /\ [][Next]_vars

\* locators of every shape, one working copy, no metadata (the answers
\* of the metadata server are those of SpecMetadata)
NextLocator == Step(AllLocators, {"404"}, PlainLayouts)

SpecLocator == Init /\ [][NextLocator]_vars

\* metadata answers and read failures of every kind
NextMetadata == Step(CoreLocators, MetaOutcomes, IoLayouts)

SpecMetadata == Init /\ [][NextMetadata]_vars

\* one load_repo_from_url on a fresh instance, and queries after it
NextFresh ==
    \/ IsNone(repo_url) /\ LoadParse(SshLocator(Acme, Widget))
    \/ FetchMetadata("200:200")
    \/ \E layout \in AllLayouts : CloneOk(layout)
    \/ CloneFail
    \/ Build
    \/ Collect
    \/ Analyze
    \/ \E d \in 0..MaxDepth : GetFileTree(d)
    \/ \E d \in 0..MaxDepth : GetTreeWithDepthOfView(d)
    \/ GetFileTreeUnbounded
    \/ GetRepoInfo
    \/ \E f \in QueryPaths : GetFileDependencies(f)
    \/ \E f \in QueryPaths : GetFileThirdPartyDependencies(f)

SpecFresh == Init /\ [][NextFresh]_vars

\* =================================================================== claims
\* the last load has returned
Returned_Load == pc = "idle" /\ ~IsNone(ret)

\* The two locator forms of the specification, read generously: the ssh form
\* git@host:owner/repo.git and the https form https://host/owner/repo (a
\* trailing slash allowed), each with a non-empty host, owner and name.
SshForm(url) ==
    /\ StartsWith(url, <<"g", "i", "t", "@">>)
    /\ LET fields == Split(SubSeq(url, 5, Len(url)), ":")
       IN  /\ Len(fields) = 2
           /\ fields[1] # EmptyStr
           /\ LET segs == Split(fields[2], Sep)
              IN  /\ Len(segs) = 2
                  /\ segs[1] # EmptyStr
                  /\ EndsWith(segs[2], DotGit)
                  /\ Len(segs[2]) > Len(DotGit)

HttpsForm(url) ==
    /\ StartsWith(url, <<"h", "t", "t", "p", "s", ":", "/", "/">>)
    /\ LET segs == Split(RStrip(SubSeq(url, 9, Len(url)), {Sep}), Sep)
       IN  /\ Len(segs) = 3
           /\ \A i \in 1..3 : segs[i] # EmptyStr

Malformed(url) == ~SshForm(url) /\ ~HttpsForm(url)

\* C1: when load_repo_from_url returns for a locator that matches neither
\* form, or lacks an owner or a name segment, it has returned False and has
\* issued no network call (no metadata GET, no git clone).
C1_MalformedRejectedBeforeNetwork ==
    (Returned_Load /\ Malformed(Val(repo_url)))
        => (ret = Some(FALSE) /\ net_log = <<>>)

\* C2: for every owner o and name n, after parsing git@github.com:o/n.git or
\* https://github.com/o/n the analyzer holds repo_owner = o and repo_name = n.
C2_BothFormsYieldOwnerAndName ==
    \A o \in Owners \ {EmptyStr}, n \in RepoNames \ {EmptyStr} :
        (repo_url \in {Some(SshLocator(o, n)), Some(HttpsLocator(o, n))})
            => (repo_owner = Some(o) /\ repo_name = Some(n))

\* the last query was op, it returned normally, and nothing ran since
Answered(op) == ~IsNone(result) /\ Val(result).op = op /\ ~Val(result).raised

\* the tree has, directly under its root, a file name.py or a directory name
HasTopLevelModule(tree, name) ==
    \E i \in 1..Len(Val(tree.children)) :
        LET child == Val(tree.children)[i]
        IN  \/ child.is_dir /\ Basename(child.path) = name
            \/ ~child.is_dir /\ Basename(child.path) = name \o <<".", "p", "y">>

\* the tree has a file or directory, at any depth, that the module name names
HasModuleNamed(tree, name) ==
    \E n \in Range(Nodes(tree)) :
        Basename(n.path) \in {name, name \o <<".", "p", "y">>}

CaseOfC3(file_path) ==
    /\ ~IsNone(file_tree)
    /\ HasTopLevelModule(Val(file_tree), Pkg)
    /\ ~HasModuleNamed(Val(file_tree), <<"o", "s">>)
    /\ DepsOf(dependency_map, file_path) = <<ImportOs, FromPkgSub>>

\* C3: in a loaded project with a top-level module pkg and no module os, for
\* a file whose recorded imports are "import os" and "from pkg.sub import x",
\* the internal query returns exactly "from pkg.sub import x" and the
\* external query returns exactly "import os".
C3_OsExternalPkgInternal ==
    /\ (Answered("get_file_dependencies") /\ CaseOfC3(Val(result).arg))
           => Val(result).val = <<FromPkgSub>>
    /\ (Answered("get_file_third_party_dependencies") /\ CaseOfC3(Val(result).arg))
           => Val(result).val = <<ImportOs>>

\* The leading module identifier of an import statement as the specification
\* defines it: for "import M, ..." the first dotted segment of the first
\* module named, for "from M import ..." the first dotted segment of M;
\* None for a line of neither form.
LeadingIdentifier(line) ==
    IF StartsWith(line, ImportKw)
    THEN LET first == Split(SubSeq(line, 8, Len(line)), ",")[1]
             words == SplitWS(first)
         IN  IF words = <<>> THEN NoneV ELSE Some(Split(words[1], ".")[1])
    ELSE IF StartsWith(line, FromKw)
    THEN LET words == SplitWS(SubSeq(line, 6, Len(line)))
         IN  IF Len(words) >= 2 /\ words[2] = ImportWord
             THEN Some(Split(words[1], ".")[1]) ELSE NoneV
    ELSE NoneV

InternalBySpec(line, files) ==
    ~IsNone(LeadingIdentifier(line)) /\ Val(LeadingIdentifier(line)) \in files

\* C4: the internal query keeps exactly the recorded statements whose leading
\* module identifier is in the module-path set, and the external query
\* exactly the others.
C4_InternalIffLeadingIdentifierInSet ==
    /\ Answered("get_file_dependencies")
           => Val(result).val =
                 SelectSeq(DepsOf(dependency_map, Val(result).arg),
                           LAMBDA line : InternalBySpec(line, project_files))
    /\ Answered("get_file_third_party_dependencies")
           => Val(result).val =
                 SelectSeq(DepsOf(dependency_map, Val(result).arg),
                           LAMBDA line : ~InternalBySpec(line, project_files))

\* the entries of the working copy fs at top that lie directly in dir_path
\* and are neither hidden nor the version-control directory
VisibleEntries(fs, top, dir_path) ==
    {i \in 1..Len(fs) :
        /\ JoinAll(top, fs[i].parent) = dir_path
        /\ ~StartsWith(fs[i].name, <<".">>)
        /\ fs[i].name # DotGit}

\* the tree was just built from the working copy still on disk
JustBuilt == pc = "collect"

\* C5: every directory node of the tree just built has as many children as
\* its directory has immediate entries that are neither hidden nor
\* version-control metadata.
C5_ChildCountMatchesDirectory ==
    JustBuilt =>
        \A n \in Range(Nodes(Val(file_tree))) :
            n.is_dir =>
                Len(Val(n.children)) =
                    Cardinality(VisibleEntries(Val(workspace), Val(root_dir), n.path))

\* how many nodes of the tree have the path
NodeCount(tree, path) ==
    LET ns == Nodes(tree) IN Cardinality({i \in 1..Len(ns) : ns[i].path = path})

\* the paths _build_file_tree adds nodes for: each directory it does not
\* skip, and the entries of such a directory that are not hidden
BuiltPaths(fs, top) ==
    LET walk == Walk(fs, top, <<>>)
        kept == {i \in 1..Len(walk) : ~Contains(walk[i].dirpath, DotGit)}
        shown(names) == {names[k] : k \in {j \in 1..Len(names) :
                                          ~StartsWith(names[j], <<".">>)}}
    IN  {walk[i].dirpath : i \in kept} \cup
        UNION {{PathJoin(walk[i].dirpath, nm) :
                   nm \in shown(walk[i].dirnames) \cup shown(walk[i].filenames)} :
               i \in kept}

\* C6: no two nodes of the tree have the same path, and every path the build
\* walked and kept has exactly one node, intermediate directories that
\* _get_or_create_node created included.
C6_OneNodePerPath ==
    /\ ~IsNone(file_tree) =>
           \A n \in Range(Nodes(Val(file_tree))) :
               NodeCount(Val(file_tree), n.path) = 1
    /\ JustBuilt =>
           \A p \in BuiltPaths(Val(workspace), Val(root_dir)) :
               NodeCount(Val(file_tree), p) = 1

\* a tree with directories that only _get_or_create_node can have created
\* (hidden ones, one inside the other), beside a directory that the walk
\* added and then found
C6_Witness ==
    /\ JustBuilt
    /\ NodeCount(Val(file_tree), PathJoin(TempDir, DotCi)) = 1
    /\ NodeCount(Val(file_tree), JoinAll(TempDir, <<DotCi, DotDeep, JobPy>>)) = 1
    /\ NodeCount(Val(file_tree), PathJoin(PathJoin(TempDir, DotCi), RunJs)) = 1
    /\ NodeCount(Val(file_tree), PathJoin(PathJoin(TempDir, Pkg), SubPy)) = 1

\* C7: once the locator was accepted and the clone succeeded, the load does
\* not return False, whatever the metadata answer was and whatever files of
\* the working copy cannot be opened, read or decoded.
C7_OnlyLocatorAndCloneAbort ==
    [][pc = "build" => ret' # Some(FALSE)]_vars

OptionalFields ==
    {"name", "full_name", "description", "stars", "forks", "language",
     "created_at", "updated_at", "owner", "readme"}

\* the last load asked for the metadata and the first GET failed: the
\* README is then never asked for
MetadataFetchFailed ==
    /\ Returned_Load
    /\ Len(SelectSeq(net_log, LAMBDA call : call[1] = "GET")) = 1

\* C8: after a load whose metadata fetch failed, get_repo_info holds none of
\* the optional metadata fields, also when earlier loads ran on the instance.
C8_FailedFetchLeavesNoMetadata ==
    (Answered("get_repo_info") /\ MetadataFetchFailed)
        => DOMAIN Val(result).val \cap OptionalFields = {}

\* the module-path set a fresh instance derives from the tree
FreshProjectFiles == CollectProjectFiles(Val(file_tree), Val(root_dir))

\* C9: after a successful load, project_files and the dependency map hold
\* only what the latest tree gives, and the internal query answers as it
\* would on a fresh instance that loaded that tree.
C9_NoStateFromEarlierLoads ==
    (Returned_Load /\ ret = Some(TRUE)) =>
        /\ project_files = FreshProjectFiles
        /\ dependency_map = AnalyzeDependencies(Val(file_tree))
        /\ Answered("get_file_dependencies") =>
               Val(result).val =
                   FileDependencies(AnalyzeDependencies(Val(file_tree)),
                                    FreshProjectFiles, Val(result).arg)

\* the places of a tree's nodes, each the child indices leading to it
RECURSIVE Locs(_)
Locs(node) ==
    {<<>>} \cup
    (IF IsNone(node.children) THEN {}
     ELSE UNION {{<<i>> \o l : l \in Locs(Val(node.children)[i])} :
                 i \in 1..Len(Val(node.children))})

\* C10: the tree get_file_tree(d) returns has no node farther than d from
\* the root; it has a node for every node of the stored tree within d; each
\* node at distance d has the path, is_dir and language of the stored node,
\* content None, and no children (an empty list for a directory).
C10_DepthLimitCutsAtDepth ==
    (Answered("get_file_tree") /\ ~IsNone(Val(result).arg)) =>
        LET d    == Val(Val(result).arg)
            view == Val(Val(result).val)
            tree == Val(file_tree)
        IN  /\ \A l \in Locs(view) : Len(l) <= d /\ l \in Locs(tree)
            /\ \A l \in Locs(tree) : Len(l) <= d => l \in Locs(view)
            /\ \A l \in Locs(view) :
                   Len(l) = d =>
                       LET v == NodeAt(view, l)
                           n == NodeAt(tree, l)
                       IN  /\ v.path = n.path
                           /\ v.is_dir = n.is_dir
                           /\ v.language = n.language
                           /\ v.content = NoneV
                           /\ v.children = IF n.is_dir THEN Some(<<>>) ELSE NoneV

\* a view cut at depth 1 of a tree that goes deeper: at the cutoff a
\* directory that has children and a file that has content
C10_Witness ==
    /\ Answered("get_file_tree")
    /\ Val(result).arg = Some(1)
    /\ \E l \in Locs(Val(file_tree)) : Len(l) = 2
    /\ \E i \in 1..Len(Val(Val(file_tree).children)) :
           LET n == Val(Val(file_tree).children)[i]
           IN  n.is_dir /\ Val(n.children) # <<>>
    /\ \E i \in 1..Len(Val(Val(file_tree).children)) :
           LET n == Val(Val(file_tree).children)[i]
           IN  ~n.is_dir /\ n.content # NoneV /\ Val(n.content) # EmptyStr

\* the ordered (path, is_dir) pairs of a node's children, None for a node
\* that has no child list
ChildEntries(node) ==
    IF IsNone(node.children) THEN NoneV
    ELSE Some([i \in 1..Len(Val(node.children)) |->
                  <<Val(node.children)[i].path, Val(node.children)[i].is_dir>>])

\* C11: for every depth d >= 1, each node of the tree get_file_tree(d)
\* returns that lies at distance d-1 or less from the root has the content of
\* the stored node and the stored node's children: as many, in the same
\* order, with the same paths and is_dir.
C11_AboveCutSameAsStored ==
    (Answered("get_file_tree") /\ ~IsNone(Val(result).arg)
        /\ Val(Val(result).arg) >= 1) =>
        LET d    == Val(Val(result).arg)
            view == Val(Val(result).val)
            tree == Val(file_tree)
        IN  \A l \in Locs(view) :
                Len(l) <= d - 1 =>
                    /\ l \in Locs(tree)
                    /\ NodeAt(view, l).content = NodeAt(tree, l).content
                    /\ ChildEntries(NodeAt(view, l)) = ChildEntries(NodeAt(tree, l))

\* a view of depth 2 in which a directory one level below the root keeps its
\* children and a file one level below the root keeps its text
C11_Witness ==
    /\ Answered("get_file_tree")
    /\ Val(result).arg = Some(2)
    /\ LET view == Val(Val(result).val)
       IN  /\ \E l \in Locs(view) :
                  /\ Len(l) = 1
                  /\ NodeAt(view, l).is_dir
                  /\ Val(NodeAt(view, l).children) # <<>>
           /\ \E l \in Locs(view) :
                  /\ Len(l) = 1
                  /\ ~NodeAt(view, l).is_dir
                  /\ NodeAt(view, l).content # NoneV
                  /\ Val(NodeAt(view, l).content) # EmptyStr

\* the last query was get_file_tree() without a depth, on a built tree
UnboundedAnswer ==
    Answered("get_file_tree") /\ IsNone(Val(result).arg) /\ ~IsNone(file_tree)

\* C12: get_file_tree() without a depth returns the tree the build produced,
\* node for node: the stored tree is only ever assigned by the build step,
\* with the build's output, and every unbounded request returns it, the
\* next one the same as the one before.
C12_UnboundedReturnsBuiltTree ==
    [][/\ file_tree' # file_tree =>
              /\ pc = "build"
              /\ file_tree' = BuildFileTree(Val(workspace), Val(root_dir))
       /\ UnboundedAnswer' => Val(result').val = file_tree'
       /\ (UnboundedAnswer /\ UnboundedAnswer') => Val(result').val = Val(result).val
      ]_vars

\* an unbounded request answered with a tree that has text in a file and a
\* node two levels below the root
C12_Witness ==
    /\ UnboundedAnswer
    /\ LET tree == Val(Val(result).val)
       IN  /\ \E l \in Locs(tree) : Len(l) = 2
           /\ \E l \in Locs(tree) :
                  /\ NodeAt(tree, l).content # NoneV
                  /\ Val(NodeAt(tree, l).content) # EmptyStr

\* the text of a file node has a line that its language's extractor
\* recognizes as an import: for Python a line that, stripped, begins with
\* "import " or "from "; for JavaScript, TypeScript and React one that begins
\* with "import " or holds "require("; for any other language none
HasRecognizedImport(node) ==
    /\ ~node.is_dir
    /\ ~IsNone(node.content)
    /\ LET lines == StrippedLines(Val(node.content))
       IN  \/ /\ node.language = Some("Python")
              /\ \E i \in 1..Len(lines) :
                     StartsWith(lines[i], ImportKw) \/ StartsWith(lines[i], FromKw)
           \/ /\ node.language \in {Some("JavaScript"), Some("TypeScript"),
                                     Some("React")}
              /\ \E i \in 1..Len(lines) :
                     StartsWith(lines[i], ImportKw) \/ Contains(lines[i], RequireCall)

\* no file of the stored tree at this path has a recognized import
ZeroRecognizedImports(file_path) ==
    IsNone(file_tree) \/
    \A n \in Range(Nodes(Val(file_tree))) :
        n.path = file_path => ~HasRecognizedImport(n)

DependencyQueries == {"get_file_dependencies", "get_file_third_party_dependencies"}

\* C13: get_file_dependencies(f) and get_file_third_party_dependencies(f)
\* return the empty list, and raise nothing, for every f with no recognized
\* import: a file of a language without extractor, a file with empty text,
\* a path the tree does not have.
C13_NoImportsGivesEmptyList ==
    (~IsNone(result) /\ Val(result).op \in DependencyQueries
        /\ ZeroRecognizedImports(Val(result).arg)) =>
        (~Val(result).raised /\ Val(result).val = <<>>)

\* the external query answered for a Markdown file whose text is "import os"
C13_Witness ==
    /\ Answered("get_file_third_party_dependencies")
    /\ ~IsNone(file_tree)
    /\ ZeroRecognizedImports(Val(result).arg)
    /\ \E n \in Range(Nodes(Val(file_tree))) :
           /\ n.path = Val(result).arg
           /\ n.language = Some("Markdown")
           /\ n.content = Some(ImportOs)

\* the internal query answered for a Python file that was read as empty text
C13_WitnessEmptyText ==
    /\ Answered("get_file_dependencies")
    /\ ~IsNone(file_tree)
    /\ \E n \in Range(Nodes(Val(file_tree))) :
           /\ n.path = Val(result).arg
           /\ n.language = Some("Python")
           /\ n.content = Some(EmptyStr)

\* the internal query answered for a path that is not in the tree
C13_WitnessMissingPath ==
    /\ Answered("get_file_dependencies")
    /\ ~IsNone(file_tree)
    /\ Val(result).arg = MissingPath

\* the load that returned last had reached the clone, so had made its
\* temporary directory
ReturnedAfterWorkspace ==
    Returned_Load /\ \E i \in 1..Len(stages) : stages[i] = "clone"

\* C14: when load_repo_from_url has returned after making its temporary
\* directory - with True, after a failed clone, after an error in the build
\* or the analysis - the directory and all beneath it is gone.
C14_NoWorkspaceAfterReturn ==
    ReturnedAfterWorkspace => workspace = NoneV

\* a load that cloned a working copy and then failed in the build
C14_Witness ==
    /\ ReturnedAfterWorkspace
    /\ ret = Some(FALSE)
    /\ stages[Len(stages)] = "build"

\* the stages of a load in the order of the specification
StageOrder == <<"parse", "metadata", "clone", "build", "collect", "analyze">>

FatalStages == {"parse", "clone", "build"}

IsPrefix(s, t) == Len(s) <= Len(t) /\ SubSeq(t, 1, Len(s)) = s

\* no network call of the load was issued twice, and at most one clone
NoCallRepeated ==
    /\ \A i, j \in 1..Len(net_log) : net_log[i] = net_log[j] => i = j
    /\ Len(SelectSeq(net_log, LAMBDA call : call[1] = "clone")) <= 1

\* C15: within one load the stages run in the order parse, metadata, clone,
\* build, collect, analyze, each at most once and none entered again; a
\* step runs the stage that follows the last one run, or starts a new call
\* with parse after the call before has returned; no request or clone is
\* issued twice; a load that returned False ran a fatal stage last, and one
\* that returned True ran them all.
C15_StagesInOrderOnce ==
    [][/\ stages' # stages =>
              \/ pc = "idle" /\ stages' = <<"parse">>
              \/ /\ pc # "idle"
                 /\ Len(stages) < Len(StageOrder)
                 /\ stages' = Append(stages, StageOrder[Len(stages) + 1])
       /\ IsPrefix(stages', StageOrder)
       /\ NoCallRepeated'
       /\ (pc' = "idle" /\ ret' = Some(FALSE)) =>
              stages'[Len(stages')] \in FatalStages
       /\ (pc' = "idle" /\ ret' = Some(TRUE)) => stages' = StageOrder
      ]_vars

\* a load whose clone failed has returned: the clone was its last stage and
\* was issued once
C15_Witness ==
    /\ Returned_Load
    /\ ret = Some(FALSE)
    /\ stages = <<"parse", "metadata", "clone">>
    /\ Len(SelectSeq(net_log, LAMBDA call : call[1] = "clone")) = 1

\* the names on the way from the root of the tree down to the node
ComponentsBelowRoot(tree, node) ==
    IF node.path = tree.path THEN <<>>
    ELSE Split(RelPath(node.path, tree.path), Sep)

\* C16: no node of the tree has, below the root, a path component that is
\* .git or begins with a dot: no hidden file, no hidden directory, nothing
\* beneath a hidden directory.
C16_NoHiddenComponentInTree ==
    ~IsNone(file_tree) =>
        \A n \in Range(Nodes(Val(file_tree))) :
            LET parts == ComponentsBelowRoot(Val(file_tree), n)
            IN  \A i \in 1..Len(parts) :
                    parts[i] # DotGit /\ ~StartsWith(parts[i], <<".">>)

\* the identifier an import statement leads with: the first dotted segment
\* of the first word after "import ", or of the word between "from " and
\* "import"; None for a line of neither form
FirstSegment(line) ==
    IF StartsWith(line, ImportKw)
    THEN LET words == SplitWS(SubSeq(line, 8, Len(line)))
         IN  IF words = <<>> THEN NoneV ELSE Some(Split(words[1], ".")[1])
    ELSE IF StartsWith(line, FromKw)
    THEN LET words == SplitWS(SubSeq(line, 6, Len(line)))
         IN  IF Len(words) >= 2 /\ words[2] = ImportWord
             THEN Some(Split(words[1], ".")[1]) ELSE NoneV
    ELSE NoneV

\* the names, extension stripped, of the files directly under the root
RootFileStems(tree) ==
    {SplitExt(Basename(Val(tree.children)[i].path))[1] :
        i \in {j \in 1..Len(Val(tree.children)) : ~Val(tree.children)[j].is_dir}}

\* the statement leads with the stem of a file directly under the root
LeadsWithRootFile(line) ==
    ~IsNone(FirstSegment(line)) /\ Val(FirstSegment(line)) \in RootFileStems(Val(file_tree))

\* C17: after one successful load on a fresh instance, every statement the
\* internal query returns leads with the stem of a file directly under the
\* root, and every recorded statement that does not is returned by the
\* external query: a package directory without a root file of its name makes
\* no import internal.
C17_InternalOnlyByRootFile ==
    (Returned_Load /\ ret = Some(TRUE)) =>
        /\ Answered("get_file_dependencies") =>
               \A i \in 1..Len(Val(result).val) :
                   LeadsWithRootFile(Val(result).val[i])
        /\ Answered("get_file_third_party_dependencies") =>
               LET recorded == DepsOf(dependency_map, Val(result).arg)
               IN  \A i \in 1..Len(recorded) :
                       ~LeadsWithRootFile(recorded[i]) =>
                           \E k \in 1..Len(Val(result).val) :
                               Val(result).val[k] = recorded[i]

\* the external query returned "from pkg.sub import x" for a tree with the
\* directory pkg holding sub.py and no file pkg.* under the root
C17_Witness ==
    /\ Returned_Load /\ ret = Some(TRUE)
    /\ Answered("get_file_third_party_dependencies")
    /\ \E k \in 1..Len(Val(result).val) : Val(result).val[k] = FromPkgSub
    /\ Pkg \notin RootFileStems(Val(file_tree))
    /\ \E n \in Range(Nodes(Val(file_tree))) :
           n.path = PathJoin(PathJoin(TempDir, Pkg), SubPy)

\* the repository a locator names: its owner and name, None for a locator
\* that names none
RepositoryOf(url) == ParseLocator(url)

\* C18: whenever the instance holds a tree, the repo_url, repo_owner and
\* repo_name that get_repo_info reports name the repository the tree was
\* cloned from, whatever loads came before and however they ended.
C18_IdentityMatchesTree ==
    (Answered("get_repo_info") /\ ~IsNone(file_tree)) =>
        LET info == Val(result).val
        IN  /\ RepositoryOf(Val(info.repo_url)) = RepositoryOf(Val(tree_url))
            /\ Some([owner |-> Val(info.repo_owner), name |-> Val(info.repo_name)])
                   = RepositoryOf(Val(tree_url))

\* after a later load failed at the clone, get_repo_info names one valid
\* repository in all three fields and the tree is that of another
C18_OtherRepositoryAfterFailedClone ==
    /\ Answered("get_repo_info") /\ ~IsNone(file_tree)
    /\ ret = Some(FALSE)
    /\ stages[Len(stages)] = "clone"
    /\ LET info == Val(result).val
       IN  /\ RepositoryOf(Val(info.repo_url))
                  = Some([owner |-> Val(info.repo_owner), name |-> Val(info.repo_name)])
           /\ RepositoryOf(Val(info.repo_url)) # RepositoryOf(Val(tree_url))

Min(a, b) == IF a <= b THEN a ELSE b

\* the last query projected, at depth arg[2], a view of depth arg[1]
Reprojected == Answered("_get_tree_with_depth")

\* C19: projecting at depth b the view get_file_tree(a) returned gives the
\* tree that projecting the stored tree at depth min(a, b) gives, so that
\* projecting twice at one depth gives what projecting once gives; and no
\* projection changes the stored tree.
C19_ProjectionComposesByMinimum ==
    [][/\ (Reprojected' /\ result' # result) =>
              /\ file_tree' = file_tree
              /\ Val(result').val =
                     Some(GetTreeWithDepth(Val(file_tree),
                                           Min(Val(result').arg[1], Val(result').arg[2]),
                                           0))
       /\ (Answered("get_file_tree")' /\ result' # result) => file_tree' = file_tree
      ]_vars

\* a view of depth 2 that has nodes two levels down, projected at depth 1
C19_Witness ==
    /\ Reprojected
    /\ Val(result).arg = <<2, 1>>
    /\ \E l \in Locs(Val(file_tree)) : Len(l) = 2
    /\ \E l \in Locs(Val(Val(result).val)) : Len(l) = 1

====
